---- MODULE Spec2Model ----
(***************************************************************************)
(* Per-user RAG pipeline of sigef-backend: UserRAGManager (vector store    *)
(* cache), ConversationManager (conversation store), MultimodalChatSystem  *)
(* (handleRequest) and the /chat, /chat/refresh routes.                    *)
(*                                                                         *)
(* Every `await` of the TypeScript source is a scheduling point: the code  *)
(* between two awaits runs atomically on the Node.js event loop and is one *)
(* action here.  External I/O (prisma, the embedding / vision / text       *)
(* models) either resolves or rejects; both outcomes are actions.          *)
(***************************************************************************)
EXTENDS Integers, Sequences, FiniteSets, TLC

VARIABLES db, writes, userVectorStores, nextIdx, calls, conversations, turns, last,
          products, sales, ops

vars == <<db, writes, userVectorStores, nextIdx, calls, conversations, turns, last,
          products, sales, ops>>

\* The product and sale tables as addSale and deleteSale see them, and the
\* invocations of the two
stock == <<products, sales, ops>>

-----------------------------------------------------------------------------
(* Bounds *)

MaxRec == 2          \* record ids per user are 1..MaxRec
MaxCalls == 2        \* direct createUserVectorStore / refreshUserVectorStore calls
MaxRefreshes == 1    \* PUT /chat/refresh requests
MaxWrites == 1       \* row insertions / deletions by the CRUD routes
MaxActive == 2       \* requests in progress at the same time
ChatTurns == 2       \* handleRequest invocations of the chat scenario
MaxTurns == 3        \* handleRequest invocations
MaxK == 2            \* retriever bounds tried besides the program's
MaxOps == 3          \* ConversationManager calls of the store scenario
MaxRows == 306       \* rows of one user in the record-window scenario
MaxQty == 2          \* stock of a product at the start, and quantity of one sale
MaxSaleOps == 3      \* addSale / deleteSale invocations

(* Program constants *)
SaleTake == 100      \* take: 100 on sales
DebtTake == 100      \* take: 100 on debts
RetrieverK == 45     \* asRetriever({ k: 45 })
HistoryN == 6        \* context.messages.slice(-6)

UserIds == {"u1", "u2"}
Recs == 1..MaxRec
TurnIds == 1..MaxTurns
\* Invocations of createUserVectorStore: turn t uses slot t, the refresh
\* requests use the slots after the turns, direct calls the first MaxCalls.
RefreshIds == (MaxTurns + 1)..(MaxTurns + MaxRefreshes)
ApiIds == 1..MaxCalls
CallIds == TurnIds \cup RefreshIds \cup ApiIds

None == [id |-> 0, docs |-> <<>>, none |-> TRUE]
NoIndex == None

\* The UserRAGManager instances: the one owned by the chat system
\* (MultimodalChatSystem.constructor) and the one each PUT /chat/refresh
\* request constructs for itself.
ChatManager == 0
RouteManager(c) == c
Managers == {ChatManager} \cup {RouteManager(c) : c \in RefreshIds}

-----------------------------------------------------------------------------
(* Records and documents *)

Min(a, b) == IF a <= b THEN a ELSE b

\* The three tables; the kind of a record is fixed by its id.
RecType(r) == CASE r % 3 = 1 -> "product"
                [] r % 3 = 2 -> "sale"
                [] OTHER     -> "debt"

\* orderBy: { createdAt: 'desc' }: record ids grow with createdAt.
RECURSIVE SortDesc(_)
SortDesc(S) == IF S = {} THEN <<>>
               ELSE LET m == CHOOSE x \in S : \A y \in S : y <= x
                    IN <<m>> \o SortDesc(S \ {m})

Take(s, n) == SubSeq(s, 1, Min(n, Len(s)))

\* prisma.user.findUnique(... include products / sales / debts ...)
getUserData(u, rows) ==
  [id       |-> u,
   products |-> SortDesc({r \in rows : RecType(r) = "product"}),
   sales    |-> Take(SortDesc({r \in rows : RecType(r) = "sale"}), SaleTake),
   debts    |-> Take(SortDesc({r \in rows : RecType(r) = "debt"}), DebtTake)]

\* textSplitter.splitText: the rendered paragraph of a record is cut in
\* chunks of at most 1000 characters; a record with long free-text fields
\* (here: the even ids) gives two chunks, the others one.
ChunkCount(r) == IF r % 2 = 0 THEN 2 ELSE 1

RECURSIVE DocsOf(_, _, _)
DocsOf(u, r, n) ==
  IF n = 0 THEN <<>>
  ELSE DocsOf(u, r, n - 1)
       \o <<[type |-> RecType(r), rec |-> r, chunk |-> n, userId |-> u]>>

RECURSIVE DocsOfList(_, _)
DocsOfList(u, rs) ==
  IF rs = <<>> THEN <<>>
  ELSE DocsOf(u, Head(rs), ChunkCount(Head(rs))) \o DocsOfList(u, Tail(rs))

createDocumentsFromUserData(userData) ==
  DocsOfList(userData.id, userData.products)
  \o DocsOfList(userData.id, userData.sales)
  \o DocsOfList(userData.id, userData.debts)

NoData == [id |-> "", products |-> <<>>, sales |-> <<>>, debts |-> <<>>]

-----------------------------------------------------------------------------
(* ConversationManager *)

NoId == -1           \* the request carries no conversationId
SuppliedId == 0      \* an id a caller makes up itself
MintIds == 1..MaxTurns   \* the ids createNewConversation hands out
ConvIds == {SuppliedId} \cup MintIds

NoConv == [id |-> NoId, userId |-> "", messages |-> <<>>, none |-> TRUE]

\* `conv_${Date.now()}_${randomUUID().slice(0, 8)}` in the chat scenarios,
\* which take the ids made up as distinct: the first unused one.  What
\* happens when the id made up is already in the store is the subject of
\* the conversation store scenario (ConvCreate).
MintId(convs) ==
  CHOOSE c \in MintIds : convs[c].none /\ \A d \in MintIds : d < c => ~convs[d].none

createNewConversation(convs, id, userId) ==
  [convs EXCEPT ![id] = [id |-> id, userId |-> userId, messages |-> <<>>,
                         none |-> FALSE]]

\* A lookup that returns null for an unknown id
getConversationContextOrNull(convs, id) == convs[id]

getConversationContext(convs, id) ==
  IF ~convs[id].none THEN convs[id]
  ELSE [id |-> id, userId |-> "", messages |-> <<>>, none |-> FALSE]

updateConversationContext(convs, ctx) == [convs EXCEPT ![ctx.id] = ctx]

\* A push that drops what the list held
PushMessageOverwrite(messages, m) == <<m>>

\* A push at the wrong end
PushMessageFront(messages, m) == <<m>> \o messages

\* ctx.messages.push({ role, content })
PushMessage(messages, m) == Append(messages, m)

\* The field turn of a message is not in the code: it names the
\* handleRequest invocation that appended the message.
addMessage(convs, id, role, content, t) ==
  LET ctx == getConversationContext(convs, id)
  IN updateConversationContext(convs,
       [ctx EXCEPT !.messages =
          PushMessage(@, [role |-> role, content |-> content, turn |-> t])])

StoredMessages(convs, id) == IF convs[id].none THEN <<>> ELSE convs[id].messages

-----------------------------------------------------------------------------
(* Retrieval: vectorStore.asRetriever({ k }) *)

Messages == {"m1"}
Analyses == {"", "desc"}     \* imageResult.content.toString()

TextNum(s) == CASE s = "m1" -> 1 [] s = "m2" -> 2 [] s = "desc" -> 3 [] OTHER -> 0

RECURSIVE QueryNum(_)
QueryNum(q) == IF q = <<>> THEN 0 ELSE TextNum(Head(q)) + QueryNum(Tail(q))

\* similarity of the query embedding and the embedding of a document
Score(q, d) == (QueryNum(q) * d.rec + d.chunk) % 3

\* documents by descending similarity, ties in insertion order
RECURSIVE SortByScore(_, _)
SortByScore(q, docs) ==
  IF docs = <<>> THEN <<>>
  ELSE LET best == CHOOSE i \in 1..Len(docs) :
                     /\ \A j \in 1..Len(docs) : Score(q, docs[j]) <= Score(q, docs[i])
                     /\ \A j \in 1..(i - 1) : Score(q, docs[j]) < Score(q, docs[i])
           rest == [j \in 1..(Len(docs) - 1) |->
                      IF j < best THEN docs[j] ELSE docs[j + 1]]
       IN <<docs[best]>> \o SortByScore(q, rest)

\* A retriever that ignores its bound
RetrieveUnbounded(docs, q, k) == SortByScore(q, docs)

Retrieve(docs, q, k) == Take(SortByScore(q, docs), k)

-----------------------------------------------------------------------------
(* MultimodalChatSystem.handleRequest: the locals of one invocation *)

IdleTurn == [pc |-> "idle", t |-> 0, u |-> "u1", message |-> "m1", image |-> FALSE,
             conversationId |-> NoId, supplied |-> FALSE, fresh |-> FALSE,
             vectorStore |-> None, usedStore |-> 0, hit |-> FALSE,
             imageAnalysis |-> "",
             history |-> <<>>, query |-> <<>>, retrieved |-> <<>>,
             retrievalRan |-> FALSE, genCalled |-> FALSE, appended |-> FALSE,
             response |-> "", sources |-> <<>>, err |-> "",
             before |-> <<>>, staleId |-> 0,
             doneBefore |-> {}, w0 |-> 0, k |-> RetrieverK,
             ctx |-> NoConv]

Active(t) == turns[t].pc \in {"store", "vision", "chain"}

\* context.messages.slice(-6)
LastN(s, n) == IF Len(s) <= n THEN s ELSE SubSeq(s, Len(s) - n + 1, Len(s))

\* .map(msg => `${role label}: ${msg.content}`), joined by newlines
RoleLabel(role) == IF role = "user" THEN "Usuario" ELSE "Assistente"
FormatHistory(msgs) == [i \in 1..Len(msgs) |-> <<RoleLabel(msgs[i].role), msgs[i].content>>]

\* The messages of the context object that handleRequest holds: the stored
\* object when the id was known at line 32, else the object made up by
\* getConversationContext, which nobody stores.
ContextMessages(turn, convs) ==
  IF turn.fresh THEN <<>> ELSE StoredMessages(convs, turn.conversationId)

\* A query that leaves the image analysis out
enhancedQueryMessageOnly(message, imageAnalysis) == <<message>>

enhancedQuery(message, imageAnalysis) ==
  IF imageAnalysis # "" THEN <<message, imageAnalysis>> ELSE <<message>>

\* A sources list that always names both channels
SourcesBoth(imageAnalysis) == <<"Dados do usuario", "Analise de imagem">>

Sources(imageAnalysis) ==
  <<"Dados do usuario">> \o (IF imageAnalysis # "" THEN <<"Analise de imagem">> ELSE <<>>)

\* The promise of handleRequest settled: its locals are gone, the route
\* handler has the response or the error (kept in last).
Settled(ts, t, pc) == [ts EXCEPT ![t] = [IdleTurn EXCEPT !.pc = pc]]

\* A turn that goes on without a store when createUserVectorStore threw
\* ("RAG will be disabled for this request")
StoreFailedBestEffort(t, turn, convs, ts) ==
  LET convs1 == addMessage(convs, turn.conversationId, "user", turn.message, t)
  IN [turns |-> [ts EXCEPT ![t] = [turn EXCEPT !.pc = "chain", !.appended = TRUE,
                                               !.query = <<turn.message>>]],
      convs |-> convs1, last |-> last]

\* lines 41-50: createUserVectorStore threw: log, vectorStore = null, throw
StoreFailed(t, turn, convs, ts) ==
  [turns |-> Settled(ts, t, "failed"), convs |-> convs,
   last |-> [turn EXCEPT !.pc = "failed", !.err = "store"]]

\* lines 69-119: append the user message, build the history and the query,
\* start the chain
AppendAndInvoke(t, turn, convs, ts) ==
  LET convs1 == addMessage(convs, turn.conversationId, "user", turn.message, t)
      turn1 == [turn EXCEPT
                  !.pc = "chain", !.appended = TRUE,
                  !.history = FormatHistory(LastN(ContextMessages(turn, convs1), HistoryN)),
                  !.query = enhancedQuery(turn.message, turn.imageAnalysis)]
  IN [turns |-> [ts EXCEPT ![t] = turn1],
      convs |-> convs1, last |-> last]

\* A turn that appends the user message before the image analysis
StoreObtainedAppendFirst(t, turn, convs, ts, idx) ==
  LET turn1 == [turn EXCEPT !.vectorStore = idx, !.usedStore = idx.id]
      convs1 == addMessage(convs, turn.conversationId, "user", turn.message, t)
  IN [turns |-> [ts EXCEPT ![t] =
                   [turn1 EXCEPT !.pc = IF turn.image THEN "vision" ELSE "chain",
                                 !.appended = TRUE,
                                 !.query = <<turn.message>>]],
      convs |-> convs1, last |-> last]

\* lines 42-56: createUserVectorStore returned idx
StoreObtained(t, turn, convs, ts, idx) ==
  LET turn1 == [turn EXCEPT !.vectorStore = idx, !.usedStore = idx.id]
  IN IF turn.image
     THEN [turns |-> [ts EXCEPT ![t] = [turn1 EXCEPT !.pc = "vision"]],
           convs |-> convs, last |-> last]
     ELSE AppendAndInvoke(t, turn1, convs, ts)

-----------------------------------------------------------------------------
(* UserRAGManager *)

NewIndex(n, documents) == [id |-> n, docs |-> documents, none |-> FALSE]

Has(st, m, u) == ~st[m][u].none

\* A cache with one slot for all users
StoreSetAnyKey(st, m, u, idx) == [st EXCEPT ![m] = [v \in UserIds |-> idx]]

\* this.userVectorStores.set(userId, vectorStore)
StoreSet(st, m, u, idx) == [st EXCEPT ![m][u] = idx]

\* A refresh that clears the whole cache
RefreshEvictAll(st, m, u) == [st EXCEPT ![m] = [v \in UserIds |-> None]]

\* A refresh that forgets to evict
RefreshEvictKeeps(st, m, u) == st

\* this.userVectorStores.delete(userId) in refreshUserVectorStore
RefreshEvict(st, m, u) == [st EXCEPT ![m][u] = None]

\* A catch block that caches an empty placeholder before it re-throws
StoreAfterFailurePlaceholder(st, m, u) ==
  [st EXCEPT ![m][u] = [id |-> 0, docs |-> <<>>, none |-> FALSE]]

\* the catch block of createUserVectorStore: log and re-throw
StoreAfterFailure(st, m, u) == st

IdleCall == [pc |-> "idle", kind |-> "create", m |-> ChatManager, u |-> "u1",
             data |-> NoData, result |-> None, hit |-> FALSE, err |-> "",
             before |-> 0, chatBefore |-> 0, overlap |-> {}, changed |-> FALSE,
             stale |-> {}]

InFlight(c) == calls[c].pc \in {"fetch", "embed"}

SameKey(c, m, u) == calls[c].m = m /\ calls[c].u = u

\* The invocation of a chat turn: handleRequest is suspended on it
OwnedByTurn(c) == c \in TurnIds /\ turns[c].pc = "store"

\* Requests in progress: chat turns, and invocations made by other callers
NumActive ==
  Cardinality({t \in TurnIds : Active(t)})
  + Cardinality({c \in CallIds : InFlight(c) /\ ~OwnedByTurn(c)})

\* The promise settled: the locals of the invocation are gone, its outcome
\* (the returned store or the thrown error) is what the caller sees.
Finished(call, pc, result, err) ==
  [call EXCEPT !.pc = pc, !.result = result, !.err = err,
               !.data = NoData, !.before = 0, !.changed = FALSE, !.stale = {}]

\* The synchronous prefix of createUserVectorStore (cache check), preceded
\* for a refresh by the delete of refreshUserVectorStore.  The invocations
\* in flight for the same key note the newcomer in overlap, and those that
\* already hold their records note a refresh in stale.
BeginCall(c, kind, m, u) ==
  LET st0 == IF kind = "refresh" THEN RefreshEvict(userVectorStores, m, u)
             ELSE userVectorStores
      hit == Has(st0, m, u)
      others == {d \in CallIds : d # c /\ InFlight(d) /\ SameKey(d, m, u)}
      mine == [IdleCall EXCEPT
                 !.pc = IF hit THEN "done" ELSE "fetch",
                 !.kind = kind, !.m = m, !.u = u,
                 !.result = IF hit THEN st0[m][u] ELSE None,
                 !.hit = hit,
                 !.before = IF hit THEN 0 ELSE userVectorStores[m][u].id,
                 !.chatBefore = IF m = ChatManager THEN 0
                                ELSE userVectorStores[ChatManager][u].id,
                 !.overlap = IF hit THEN {} ELSE others]
  IN /\ calls[c].pc = "idle"
     /\ userVectorStores' = st0
     /\ calls' = [d \in CallIds |->
                    IF d = c THEN mine
                    ELSE IF d \in others /\ ~hit
                         THEN [calls[d] EXCEPT
                                 !.overlap = @ \cup {c},
                                 !.stale = IF kind = "refresh" /\ calls[d].pc = "embed"
                                           THEN @ \cup {c} ELSE @]
                         ELSE calls[d]]

\* What the settling of invocation c does to the chat turn suspended on it
ResumeTurn(c, ok, idx) ==
  IF OwnedByTurn(c)
  THEN LET r == IF ok THEN StoreObtained(c, turns[c], conversations, turns, idx)
                ELSE StoreFailed(c, turns[c], conversations, turns)
       IN /\ turns' = r.turns
          /\ conversations' = r.convs
          /\ last' = r.last
  ELSE UNCHANGED <<turns, conversations, last>>

\* const userData = await this.getUserData(userId)  -- resolved
Fetch(c) ==
  /\ calls[c].pc = "fetch"
  /\ calls' = [calls EXCEPT ![c].pc = "embed",
                            ![c].data = getUserData(calls[c].u, db[calls[c].u])]
  /\ UNCHANGED <<stock, db, writes, userVectorStores, nextIdx, conversations, turns, last>>

\* getUserData rejected: prisma failed, or findUnique returned null and
\* 'User not found' was thrown
FetchFail(c) ==
  /\ calls[c].pc = "fetch"
  /\ calls' = [calls EXCEPT ![c] = Finished(calls[c], "failed", None, "fetch")]
  /\ userVectorStores' = StoreAfterFailure(userVectorStores, calls[c].m, calls[c].u)
  /\ ResumeTurn(c, FALSE, None)
  /\ UNCHANGED <<stock, db, writes, nextIdx>>

\* A store that cannot be built over zero documents
EmbedRejectsEmpty(c) ==
  /\ calls[c].pc = "embed"
  /\ LET documents == createDocumentsFromUserData(calls[c].data)
         idx == NewIndex(nextIdx, documents)
     IN IF documents = <<>>
        THEN /\ calls' = [calls EXCEPT ![c] = Finished(calls[c], "failed", None, "embedding")]
             /\ userVectorStores' = StoreAfterFailure(userVectorStores, calls[c].m, calls[c].u)
             /\ ResumeTurn(c, FALSE, None)
        ELSE /\ userVectorStores' = StoreSet(userVectorStores, calls[c].m, calls[c].u, idx)
             /\ calls' = [calls EXCEPT ![c] = Finished(calls[c], "done", idx, "")]
             /\ ResumeTurn(c, TRUE, idx)
  /\ nextIdx' = nextIdx + 1
  /\ UNCHANGED <<stock, db, writes>>

\* await MemoryVectorStore.fromDocuments(documents, embeddings) resolved,
\* then set and return (both branches of documents.length === 0)
Embed(c) ==
  /\ calls[c].pc = "embed"
  /\ LET idx == NewIndex(nextIdx, createDocumentsFromUserData(calls[c].data))
     IN /\ userVectorStores' = StoreSet(userVectorStores, calls[c].m, calls[c].u, idx)
        /\ calls' = [calls EXCEPT ![c] = Finished(calls[c], "done", idx, "")]
        /\ ResumeTurn(c, TRUE, idx)
  /\ nextIdx' = nextIdx + 1
  /\ UNCHANGED <<stock, db, writes>>

\* the embedding call rejected; with zero documents no embedding request
\* is made, so there is nothing to reject
EmbedFail(c) ==
  /\ calls[c].pc = "embed"
  /\ createDocumentsFromUserData(calls[c].data) # <<>>
  /\ calls' = [calls EXCEPT ![c] = Finished(calls[c], "failed", None, "embedding")]
  /\ userVectorStores' = StoreAfterFailure(userVectorStores, calls[c].m, calls[c].u)
  /\ ResumeTurn(c, FALSE, None)
  /\ UNCHANGED <<stock, db, writes, nextIdx>>

\* A client of one UserRAGManager calls createUserVectorStore(u)
ApiCreate(c, u) ==
  /\ NumActive < MaxActive
  /\ \A d \in ApiIds : d < c => calls[d].pc # "idle"
  /\ BeginCall(c, "create", ChatManager, u)
  /\ UNCHANGED <<stock, db, writes, nextIdx, conversations, turns, last>>

\* A client of one UserRAGManager calls refreshUserVectorStore(u)
ApiRefresh(c, u) ==
  /\ NumActive < MaxActive
  /\ \A d \in ApiIds : d < c => calls[d].pc # "idle"
  /\ BeginCall(c, "refresh", ChatManager, u)
  /\ UNCHANGED <<stock, db, writes, nextIdx, conversations, turns, last>>

\* PUT /chat/refresh: new UserRAGManager(), refreshUserVectorStore(userId)
RouteRefresh(c, u) ==
  /\ NumActive < MaxActive
  /\ \A d \in RefreshIds : d < c => calls[d].pc # "idle"
  /\ BeginCall(c, "refresh", RouteManager(c), u)
  /\ UNCHANGED <<stock, db, writes, nextIdx, conversations, turns, last>>

-----------------------------------------------------------------------------
(* The record source: the CRUD routes add and delete rows *)

DbWrite(u, r) ==
  /\ writes < MaxWrites
  /\ writes' = writes + 1
  /\ db' = [db EXCEPT ![u] = IF r \in db[u] THEN db[u] \ {r} ELSE db[u] \cup {r}]
  /\ calls' = [c \in CallIds |->
                 IF InFlight(c) /\ calls[c].u = u
                 THEN [calls[c] EXCEPT !.changed = TRUE]
                 ELSE calls[c]]
  /\ UNCHANGED <<stock, userVectorStores, nextIdx, conversations, turns, last>>

-----------------------------------------------------------------------------
(* POST /chat: chatSystem.handleRequest(userId, body) *)

\* the index a successful refresh request of user u found in the chat
\* system's cache (0: no such request)
StaleId(u) ==
  LET S == {calls[c].chatBefore : c \in {d \in RefreshIds :
                                     calls[d].pc = "done" /\ calls[d].u = u}}
  IN IF S = {} THEN 0 ELSE CHOOSE x \in S : \A y \in S : y <= x

\* lines 25-42: resolve the conversation, read the context, call
\* createUserVectorStore; on a cache hit go on to the next await
StartTurn(t, u, msg, img, cid) ==
  /\ NumActive < MaxActive
  /\ turns[t].pc = "idle"
  /\ \A x \in TurnIds : x < t => turns[x].pc # "idle"
  /\ cid \in {NoId} \cup {c \in ConvIds : c = SuppliedId \/ ~conversations[c].none}
  /\ BeginCall(t, "create", ChatManager, u)
  /\ LET id == IF cid = NoId THEN MintId(conversations) ELSE cid
         convs1 == IF cid = NoId THEN createNewConversation(conversations, id, u)
                   ELSE conversations
         hit == Has(userVectorStores, ChatManager, u)
         turn == [IdleTurn EXCEPT
                    !.pc = "store", !.t = t, !.u = u, !.message = msg, !.image = img,
                    !.conversationId = id, !.supplied = (cid # NoId),
                    !.fresh = convs1[id].none,
                    !.hit = hit,
                    !.before = StoredMessages(convs1, id),
                    !.staleId = StaleId(u),
                    !.doneBefore = {x \in TurnIds : turns[x].pc \in {"done", "failed"}},
                    !.w0 = writes]
         r == IF hit
              THEN StoreObtained(t, turn, convs1, turns, userVectorStores[ChatManager][u])
              ELSE [turns |-> [turns EXCEPT ![t] = turn], convs |-> convs1, last |-> last]
     IN /\ conversations' = r.convs
        /\ turns' = r.turns
        /\ last' = r.last
  /\ UNCHANGED <<stock, db, writes, nextIdx>>

\* lines 64-65: visionModel.invoke resolved
VisionOk(t, a) ==
  /\ turns[t].pc = "vision"
  /\ LET r == AppendAndInvoke(t, [turns[t] EXCEPT !.imageAnalysis = a],
                              conversations, turns)
     IN /\ conversations' = r.convs
        /\ turns' = r.turns
        /\ last' = r.last
  /\ UNCHANGED <<stock, db, writes, userVectorStores, nextIdx, calls>>

\* visionModel.invoke rejected
VisionFail(t) ==
  /\ turns[t].pc = "vision"
  /\ turns' = Settled(turns, t, "failed")
  /\ last' = [turns[t] EXCEPT !.pc = "failed", !.err = "vision"]
  /\ UNCHANGED <<stock, db, writes, userVectorStores, nextIdx, calls, conversations>>

\* lines 119-131: ragChain.invoke resolved: the retriever ran on the store
\* the turn holds, the text model answered
ChainOk(t) ==
  /\ turns[t].pc = "chain"
  /\ LET turn == turns[t]
         convs1 == addMessage(conversations, turn.conversationId, "assistant", "reply", t)
         turn1 == [turn EXCEPT
                     !.pc = "done",
                     !.retrieved = Retrieve(turn.vectorStore.docs, turn.query, RetrieverK),
                     !.retrievalRan = TRUE, !.genCalled = TRUE,
                     !.response = "reply",
                     !.sources = Sources(turn.imageAnalysis)]
     IN /\ conversations' = convs1
        /\ turns' = Settled(turns, t, "done")
        /\ last' = turn1
  /\ UNCHANGED <<stock, db, writes, userVectorStores, nextIdx, calls>>

\* ragChain.invoke rejected: in the retriever (query embedding) or in the
\* text model
ChainFail(t, cause) ==
  /\ turns[t].pc = "chain"
  /\ cause \in {"retrieval", "generation"}
  /\ LET turn == turns[t]
         turn1 == IF cause = "retrieval" THEN turn
                  ELSE [turn EXCEPT
                          !.retrieved = Retrieve(turn.vectorStore.docs, turn.query, RetrieverK),
                          !.retrievalRan = TRUE, !.genCalled = TRUE]
     IN last' = [turn1 EXCEPT !.pc = "failed", !.err = cause]
  /\ turns' = Settled(turns, t, "failed")
  /\ UNCHANGED <<stock, db, writes, userVectorStores, nextIdx, calls, conversations>>

-----------------------------------------------------------------------------
(* The sale actions: addSale and deleteSale on the product and sale tables *)

ProductIds == {"p1", "p2"}
NoProduct == "p0"              \* a productId that is not in the table
SaleOps == 1..MaxSaleOps
SaleIds == SaleOps             \* the row addSale invocation o creates has id o
Quantities == 1..MaxQty

NoSale == [productId |-> "", quantitySold |-> 0, none |-> TRUE]

\* The locals of one invocation: the product read by addSale (its
\* quantity), the sale read by deleteSale (productId, quantitySold)
IdleOp == [pc |-> "idle", kind |-> "", productId |-> "", quantitySold |-> 0,
           saleId |-> 0, quantity |-> 0, err |-> ""]

InitStock ==
  /\ products = [p \in ProductIds |-> MaxQty]
  /\ sales = [s \in SaleIds |-> NoSale]
  /\ ops = [o \in SaleOps |-> IdleOp]

\* The promise settled: the locals are gone, the caller has the result or
\* the error
OpSettled(op, pc, err) ==
  [IdleOp EXCEPT !.pc = pc, !.kind = op.kind, !.saleId = op.saleId, !.err = err]

\* addSale: prisma.product.findFirst resolved, then the two checks
AddSaleFind(o, p, q) ==
  /\ ops[o].pc = "idle"
  /\ \A d \in SaleOps : d < o => ops[d].pc # "idle"
  /\ LET op == [IdleOp EXCEPT !.kind = "addSale", !.productId = p,
                              !.quantitySold = q, !.saleId = o]
     IN ops' = [ops EXCEPT ![o] =
                  IF p \notin ProductIds THEN OpSettled(op, "failed", "Product not found.")
                  ELSE IF products[p] < q THEN OpSettled(op, "failed", "Insufficient stock.")
                  ELSE [op EXCEPT !.pc = "tx", !.quantity = products[p]]]
  /\ UNCHANGED <<products, sales, db, writes, userVectorStores, nextIdx, calls,
                 conversations, turns, last>>

\* addSale: the transaction committed: tx.sale.create and the decrement
AddSaleCommit(o) ==
  /\ ops[o].pc = "tx" /\ ops[o].kind = "addSale"
  /\ sales' = [sales EXCEPT ![o] = [productId |-> ops[o].productId,
                                     quantitySold |-> ops[o].quantitySold,
                                     none |-> FALSE]]
  /\ products' = [products EXCEPT ![ops[o].productId] = @ - ops[o].quantitySold]
  /\ ops' = [ops EXCEPT ![o] = OpSettled(ops[o], "done", "")]
  /\ UNCHANGED <<db, writes, userVectorStores, nextIdx, calls, conversations, turns, last>>

\* addSale: the transaction rejected and was rolled back
AddSaleTxFail(o) ==
  /\ ops[o].pc = "tx" /\ ops[o].kind = "addSale"
  /\ ops' = [ops EXCEPT ![o] = OpSettled(ops[o], "failed", "Failed to add sale.")]
  /\ UNCHANGED <<products, sales, db, writes, userVectorStores, nextIdx, calls,
                 conversations, turns, last>>

\* deleteSale: prisma.sale.findFirst resolved, then the check
DeleteSaleFind(o, s) ==
  /\ ops[o].pc = "idle"
  /\ \A d \in SaleOps : d < o => ops[d].pc # "idle"
  /\ LET op == [IdleOp EXCEPT !.kind = "deleteSale", !.saleId = s]
     IN ops' = [ops EXCEPT ![o] =
                  IF sales[s].none THEN OpSettled(op, "failed", "Sale not found.")
                  ELSE [op EXCEPT !.pc = "tx", !.productId = sales[s].productId,
                                  !.quantitySold = sales[s].quantitySold]]
  /\ UNCHANGED <<products, sales, db, writes, userVectorStores, nextIdx, calls,
                 conversations, turns, last>>

\* A transaction that deletes with deleteMany: no error when the row is gone
DeleteSaleCommitAnyway(o) ==
  /\ ops[o].pc = "tx" /\ ops[o].kind = "deleteSale"
  /\ sales' = [sales EXCEPT ![ops[o].saleId] = NoSale]
  /\ products' = [products EXCEPT ![ops[o].productId] = @ + ops[o].quantitySold]
  /\ ops' = [ops EXCEPT ![o] = OpSettled(ops[o], "done", "")]
  /\ UNCHANGED <<db, writes, userVectorStores, nextIdx, calls, conversations, turns, last>>

\* deleteSale: the transaction committed: tx.sale.delete (which needs the
\* row) and the increment by the quantitySold read before
DeleteSaleCommit(o) ==
  /\ ops[o].pc = "tx" /\ ops[o].kind = "deleteSale"
  /\ ~sales[ops[o].saleId].none
  /\ sales' = [sales EXCEPT ![ops[o].saleId] = NoSale]
  /\ products' = [products EXCEPT ![ops[o].productId] = @ + ops[o].quantitySold]
  /\ ops' = [ops EXCEPT ![o] = OpSettled(ops[o], "done", "")]
  /\ UNCHANGED <<db, writes, userVectorStores, nextIdx, calls, conversations, turns, last>>

\* deleteSale: the transaction rejected (the row is gone, or the database
\* failed) and was rolled back
DeleteSaleTxFail(o) ==
  /\ ops[o].pc = "tx" /\ ops[o].kind = "deleteSale"
  /\ ops' = [ops EXCEPT ![o] = OpSettled(ops[o], "failed", "Failed to delete sale.")]
  /\ UNCHANGED <<products, sales, db, writes, userVectorStores, nextIdx, calls,
                 conversations, turns, last>>

-----------------------------------------------------------------------------

\* Every user starts with some rows; the others are free to be inserted.
InitRows == {r \in Recs : r % 2 = 1}

Init ==
  /\ db = [u \in UserIds |-> InitRows]
  /\ writes = 0
  /\ userVectorStores = [m \in Managers |-> [u \in UserIds |-> None]]
  /\ nextIdx = 1
  /\ calls = [c \in CallIds |-> IdleCall]
  /\ conversations = [c \in ConvIds |-> NoConv]
  /\ turns = [t \in TurnIds |-> IdleTurn]
  /\ last = IdleTurn
  /\ InitStock

\* One UserRAGManager under arbitrary concurrent calls of its two methods
NextRAG ==
  \/ \E c \in ApiIds, u \in UserIds : ApiCreate(c, u)
  \/ \E c \in ApiIds, u \in UserIds : ApiRefresh(c, u)
  \/ \E c \in CallIds : Fetch(c)
  \/ \E c \in CallIds : FetchFail(c)
  \/ \E c \in CallIds : Embed(c)
  \/ \E c \in CallIds : EmbedFail(c)
  \/ \E u \in UserIds, r \in Recs : DbWrite(u, r)

SpecRAG == Init /\ [][NextRAG]_vars

\* The chat scenario: turns of both users, with and without image and
\* conversation id, over a record source that does not change.
NextChat ==
  \/ \E t \in 1..ChatTurns, u \in UserIds, msg \in Messages, img \in BOOLEAN,
        cid \in {NoId} \cup ConvIds : StartTurn(t, u, msg, img, cid)
  \/ \E t \in TurnIds, a \in Analyses : VisionOk(t, a)
  \/ \E t \in TurnIds : VisionFail(t)
  \/ \E t \in TurnIds : ChainOk(t)
  \/ \E t \in TurnIds, cause \in {"retrieval", "generation"} : ChainFail(t, cause)
  \/ \E c \in CallIds : Fetch(c)
  \/ \E c \in CallIds : FetchFail(c)
  \/ \E c \in CallIds : Embed(c)
  \/ \E c \in CallIds : EmbedFail(c)

SpecChat == Init /\ [][NextChat]_vars

\* The server scenario: the text-only turns of one user, each on a
\* conversation of its own, the refresh requests and the CRUD writes of
\* that user.
ServerUsers == {"u1"}

NextServer ==
  \/ \E t \in TurnIds, u \in ServerUsers, msg \in Messages :
        StartTurn(t, u, msg, FALSE, NoId)
  \/ \E t \in TurnIds : ChainOk(t)
  \/ \E t \in TurnIds, cause \in {"retrieval", "generation"} : ChainFail(t, cause)
  \/ \E c \in RefreshIds, u \in ServerUsers : RouteRefresh(c, u)
  \/ \E c \in CallIds : Fetch(c)
  \/ \E c \in CallIds : FetchFail(c)
  \/ \E c \in CallIds : Embed(c)
  \/ \E c \in CallIds : EmbedFail(c)
  \/ \E u \in ServerUsers, r \in Recs : DbWrite(u, r)

SpecServer == Init /\ [][NextServer]_vars

\* The retrieval scenario: any set of rows per user, the index of a user
\* built by createUserVectorStore, and retrievals on the cached index with
\* the program's bound and with small ones.
InitRetrieve ==
  /\ db \in [UserIds -> SUBSET Recs]
  /\ writes = 0
  /\ userVectorStores = [m \in Managers |-> [u \in UserIds |-> None]]
  /\ nextIdx = 1
  /\ calls = [c \in CallIds |-> IdleCall]
  /\ conversations = [c \in ConvIds |-> NoConv]
  /\ turns = [t \in TurnIds |-> IdleTurn]
  /\ last = IdleTurn
  /\ InitStock

Queries == {<<"m1">>, <<"m1", "desc">>}

\* retriever = vectorStore.asRetriever({ k }); retriever.invoke(q) on the
\* index cached for u
RetrieveK(u, q, k) ==
  /\ Has(userVectorStores, ChatManager, u)
  /\ LET idx == userVectorStores[ChatManager][u]
     IN last' = [IdleTurn EXCEPT
                   !.pc = "done", !.u = u, !.query = q, !.k = k,
                   !.vectorStore = idx, !.usedStore = idx.id, !.hit = TRUE,
                   !.retrieved = Retrieve(idx.docs, q, k),
                   !.retrievalRan = TRUE]
  /\ UNCHANGED <<stock, db, writes, userVectorStores, nextIdx, calls, conversations, turns>>

NextRetrieve ==
  \/ \E u \in UserIds : ApiCreate(1, u)
  \/ Fetch(1)
  \/ Embed(1)
  \/ \E u \in UserIds, q \in Queries, k \in (1..MaxK) \cup {RetrieverK} :
        RetrieveK(u, q, k)

SpecRetrieve == InitRetrieve /\ [][NextRetrieve]_vars

-----------------------------------------------------------------------------
(* Claims on UserRAGManager, checked under SpecRAG *)

Builds(m, u) == {c \in CallIds : InFlight(c) /\ SameKey(c, m, u)}

DocRecs(docs) == {docs[i].rec : i \in 1..Len(docs)}

\* C1 (as claimed): at no time are two builds of createUserVectorStore for
\* the same user in flight on one manager, so concurrent calls on a cold
\* cache make one record fetch and one embedding pass.
C1_AtMostOneBuild ==
  \A c1, c2 \in CallIds :
    (/\ c1 # c2
     /\ calls[c1].kind = "create" /\ calls[c2].kind = "create"
     /\ InFlight(c1) /\ InFlight(c2)
     /\ calls[c1].m = calls[c2].m)
    => calls[c1].u # calls[c2].u

\* C2 (as claimed): two overlapping createUserVectorStore calls for one
\* user return the same index instance, and that instance is the cached one
\* once both have returned.
C2_SingleWinner ==
  \A c1, c2 \in CallIds :
    (/\ c1 # c2
     /\ calls[c1].kind = "create" /\ calls[c2].kind = "create"
     /\ calls[c1].pc = "done" /\ calls[c2].pc = "done"
     /\ c2 \in calls[c1].overlap
     /\ \A d \in CallIds : calls[d].pc # "idle" => calls[d].kind = "create")
    => /\ calls[c1].result.id = calls[c2].result.id
       /\ userVectorStores[calls[c1].m][calls[c1].u].id = calls[c1].result.id

\* The step in which the refresh call c returns, no other build for its
\* user having been in flight on its manager since it was called
RefreshReturns(c) ==
  /\ calls[c].pc # "done"
  /\ calls'[c].pc = "done"
  /\ calls'[c].kind = "refresh"
  /\ calls'[c].overlap = {}

C5_FailedBuildCachesNothing ==
  [][\A c \in CallIds :
       (calls[c].pc # "failed" /\ calls'[c].pc = "failed") =>
         /\ InFlight(c)
         /\ calls'[c].result.none
         /\ calls'[c].err \in {"fetch", "embedding"}
         /\ userVectorStores' = userVectorStores
         /\ (~Has(userVectorStores, calls[c].m, calls[c].u)
               => ~Has(userVectorStores', calls[c].m, calls[c].u))
    ]_vars

\* C5 witness: a build failed, nothing is cached for its user, and a call
\* made after the failure is building afresh.
C5_Witness ==
  \E c, d \in ApiIds :
    /\ c # d
    /\ calls[c].pc = "failed" /\ calls[c].overlap = {}
    /\ calls[d].kind = "create" /\ calls[d].pc = "fetch" /\ calls[d].overlap = {}
    /\ SameKey(d, calls[c].m, calls[c].u)
    /\ ~Has(userVectorStores, calls[c].m, calls[c].u)

\* C6 (as claimed): when refreshUserVectorStore(u) fails, the index that was
\* cached for u before the call is still cached.
C6_FailedRefreshKeepsOld ==
  [][\A c \in CallIds :
       (/\ calls[c].kind = "refresh"
        /\ InFlight(c)
        /\ calls'[c].pc = "failed"
        /\ calls[c].before # 0)
       => userVectorStores'[calls[c].m][calls[c].u].id = calls[c].before
    ]_vars

\* C18: in every state the index cached under user u holds only documents
\* whose userId is u, made from rows of u; the records an invocation for u
\* holds are those of u; and no index is cached under two keys, so each
\* user id has one index of its own at most.
C18_OneUserPerIndex ==
  /\ \A m \in Managers, u \in UserIds :
       Has(userVectorStores, m, u) =>
         LET docs == userVectorStores[m][u].docs
         IN \A i \in 1..Len(docs) : docs[i].userId = u /\ docs[i].rec \in Recs
  /\ \A m \in Managers, u1, u2 \in UserIds :
       (u1 # u2 /\ Has(userVectorStores, m, u1) /\ Has(userVectorStores, m, u2))
         => userVectorStores[m][u1].id # userVectorStores[m][u2].id
  /\ \A c \in CallIds : calls[c].pc = "embed" => calls[c].data.id = calls[c].u

\* C18 witness: the indexes of two users, each built by an invocation of
\* its own, are both cached and both hold documents.
C18_Witness ==
  \E c, d \in ApiIds :
    /\ calls[c].pc = "done" /\ calls[d].pc = "done"
    /\ calls[c].u # calls[d].u
    /\ ~calls[c].hit /\ ~calls[d].hit
    /\ userVectorStores[ChatManager][calls[c].u] = calls[c].result
    /\ userVectorStores[ChatManager][calls[d].u] = calls[d].result
    /\ calls[c].result.docs # <<>> /\ calls[d].result.docs # <<>>

\* C19: a step of a createUserVectorStore or refreshUserVectorStore
\* invocation for user A (its start, the arrival of its records, its end)
\* leaves the cache entry of every other user, and every other manager, as
\* it was; and an invocation in flight is never held up by those of other
\* users: the step that its pending answer allows is enabled.
C19_IndependentBuilds ==
  [][\A c \in CallIds :
       /\ calls'[c].pc # calls[c].pc =>
            /\ \A u \in UserIds \ {calls'[c].u} :
                 userVectorStores'[calls'[c].m][u] = userVectorStores[calls'[c].m][u]
            /\ \A m \in Managers \ {calls'[c].m} :
                 userVectorStores'[m] = userVectorStores[m]
       /\ calls[c].pc = "fetch" => ENABLED Fetch(c)
       /\ calls[c].pc = "embed" => ENABLED Embed(c)
    ]_vars

\* C19 witness: while the build of one user, started first, is still in
\* flight, a build of another user has started and completed.
C19_Witness ==
  /\ InFlight(1)
  /\ calls[2].pc = "done" /\ ~calls[2].hit
  /\ calls[2].u # calls[1].u
  /\ userVectorStores[ChatManager][calls[2].u] = calls[2].result
  /\ ~Has(userVectorStores, ChatManager, calls[1].u)

\* C22 (as claimed): as long as refreshUserVectorStore has not been
\* called, an index that is cached for a user stays the cached index of
\* that user: no step (a createUserVectorStore call starting, its records
\* arriving, its end, a write to the rows) removes or replaces it.
C22_RefreshOnlyInvalidation ==
  [][(\A c \in CallIds : calls'[c].pc # "idle" => calls'[c].kind # "refresh")
       => \A m \in Managers, u \in UserIds :
            Has(userVectorStores, m, u)
              => userVectorStores'[m][u] = userVectorStores[m][u]
    ]_vars

\* C25 (as claimed): a build that held its records when a refresh for the
\* same user was called does not put its index in the cache once that
\* refresh has completed; so the index the refresh cached is not replaced
\* by one built from records fetched before the refresh.
C25_RefreshNotUndone ==
  [][\A c, r \in CallIds :
       (/\ calls[c].pc = "embed" /\ calls'[c].pc = "done"
        /\ r \in calls[c].stale
        /\ calls[r].pc = "done")
         => /\ userVectorStores'[calls[c].m][calls[c].u] # calls'[c].result
            /\ userVectorStores'[calls[c].m][calls[c].u] = calls[r].result
    ]_vars

-----------------------------------------------------------------------------
(* Claims on handleRequest, checked under SpecChat *)

IsPrefix(p, s) == Len(p) <= Len(s) /\ SubSeq(s, 1, Len(p)) = p

\* the positions in msgs of the messages of role that turn t appended
Positions(msgs, t, role) ==
  {i \in 1..Len(msgs) : msgs[i].turn = t /\ msgs[i].role = role}

RECURSIVE MessagesOf(_, _)
MessagesOf(msgs, t) ==
  IF msgs = <<>> THEN <<>>
  ELSE (IF Head(msgs).turn = t THEN <<Head(msgs)>> ELSE <<>>)
       \o MessagesOf(Tail(msgs), t)

C8_FailedTurnPartialState ==
  [][\A t \in TurnIds :
       (Active(t) /\ turns'[t].pc = "failed") =>
         LET msgs == StoredMessages(conversations', turns[t].conversationId)
             own == [role |-> "user", content |-> turns[t].message, turn |-> t]
         IN /\ last'.t = t /\ last'.pc = "failed"
            /\ last'.err \in {"store", "vision", "retrieval", "generation"}
            /\ IsPrefix(turns[t].before, msgs)
            /\ MessagesOf(msgs, t) =
                 IF last'.err \in {"retrieval", "generation"} THEN <<own>> ELSE <<>>
            /\ (last'.err \in {"retrieval", "generation"}) = turns[t].appended
            /\ (\A i \in (Len(turns[t].before) + 1)..Len(msgs) : msgs[i].turn = t)
                 => msgs = turns[t].before
                      \o (IF last'.err \in {"retrieval", "generation"}
                          THEN <<own>> ELSE <<>>)
    ]_vars

\* C8 witness: a turn on a conversation that already had messages failed in
\* the chain; the stored list is the old list followed by its user message.
C8_Witness ==
  /\ last.pc = "failed" /\ last.err = "generation"
  /\ Len(last.before) = 2
  /\ StoredMessages(conversations, last.conversationId) =
       last.before \o <<[role |-> "user", content |-> last.message, turn |-> last.t]>>

\* C9: when a turn T2 on conversation c returns, c lists T2's user message
\* before T2's assistant message, each once, and for every turn T1 on c that
\* had returned before T2 was called, T1's user message, T1's assistant
\* message, and only then T2's.
C9_ConversationOrdering ==
  last.pc = "done" =>
    LET msgs == StoredMessages(conversations, last.conversationId)
        u2 == Positions(msgs, last.t, "user")
        a2 == Positions(msgs, last.t, "assistant")
    IN /\ Cardinality(u2) = 1 /\ Cardinality(a2) = 1
       /\ \A i \in u2, j \in a2 : i < j
       /\ \A t1 \in last.doneBefore :
            LET u1 == Positions(msgs, t1, "user")
                a1 == Positions(msgs, t1, "assistant")
            IN /\ \A i \in u1 \cup a1, j \in u2 : i < j
               /\ a1 # {} => /\ Cardinality(u1) = 1 /\ Cardinality(a1) = 1
                             /\ \A i \in u1, j \in a1 : i < j

\* C9 witness: T1 and then T2 returned on a conversation id made up by the
\* caller and unknown to the store on T1; the four messages are in order.
C9_Witness ==
  /\ last.pc = "done" /\ last.conversationId = SuppliedId
  /\ \E t1 \in last.doneBefore :
       LET msgs == StoredMessages(conversations, SuppliedId)
       IN /\ Len(msgs) = 4
          /\ <<msgs[1].turn, msgs[2].turn, msgs[3].turn, msgs[4].turn>>
               = <<t1, t1, last.t, last.t>>
          /\ <<msgs[1].role, msgs[2].role, msgs[3].role, msgs[4].role>>
               = <<"user", "assistant", "user", "assistant">>

-----------------------------------------------------------------------------
(* Claims on the routes, checked under SpecServer *)

\* C4 (as claimed): a chat turn called after a successful PUT /chat/refresh
\* of its user, which found an index of that user in the chat system's cache,
\* does not retrieve from that index.
C4_RefreshReachesChat ==
  \A t \in TurnIds :
    (Active(t) /\ turns[t].staleId # 0) => turns[t].usedStore # turns[t].staleId

\* C10 (as claimed): a retrieval called after another of the same user with
\* the same query had returned, the rows unchanged since that one was called
\* and no refresh made, returns the same documents in the same order and is
\* served from the cache.
C10_IdempotentRetrieval ==
  [][(/\ last.pc = "done" /\ last'.pc = "done"
      /\ last'.t # last.t
      /\ last.t \in last'.doneBefore
      /\ last'.u = last.u
      /\ last'.query = last.query
      /\ last.w0 = writes'
      /\ \A c \in RefreshIds : calls'[c].pc = "idle")
     => /\ last'.retrieved = last.retrieved
        /\ last'.hit
    ]_vars

-----------------------------------------------------------------------------
(* The conversation store scenario: one ConversationManager under any
   sequence of calls of its methods.  last is the record of the latest call:
   pc the method, t its number, conversationId the id it was about, fresh
   whether the store had no context under that id, before the messages
   stored under it, ctx the context returned. *)

\* createNewConversation(u).  The id is made of Date.now() and 8 hex digits
\* of randomUUID(): the wall clock may repeat a millisecond and the digits
\* are random, so any id of that form can come out; the context is set
\* under it without a look at the store.
ConvCreate(u, id) ==
  /\ last.t < MaxOps
  /\ id \in MintIds
  /\ conversations' = createNewConversation(conversations, id, u)
  /\ last' = [IdleTurn EXCEPT
                !.pc = "minted", !.t = last.t + 1, !.u = u, !.conversationId = id,
                !.fresh = conversations[id].none,
                !.before = StoredMessages(conversations, id),
                !.ctx = conversations'[id]]
  /\ UNCHANGED <<stock, db, writes, userVectorStores, nextIdx, calls, turns>>

\* getConversationContext(id)
ConvGet(id) ==
  /\ last.t < MaxOps
  /\ last' = [IdleTurn EXCEPT
                !.pc = "got", !.t = last.t + 1, !.conversationId = id,
                !.fresh = conversations[id].none,
                !.before = StoredMessages(conversations, id),
                !.ctx = getConversationContext(conversations, id)]
  /\ UNCHANGED <<stock, db, writes, userVectorStores, nextIdx, calls, conversations, turns>>

\* addMessage(id, role, content)
ConvAdd(id, role, content) ==
  /\ last.t < MaxOps
  /\ conversations' = addMessage(conversations, id, role, content, last.t + 1)
  /\ last' = [IdleTurn EXCEPT
                !.pc = "added", !.t = last.t + 1, !.conversationId = id,
                !.message = content,
                !.fresh = conversations[id].none,
                !.before = StoredMessages(conversations, id),
                !.ctx = conversations'[id]]
  /\ UNCHANGED <<stock, db, writes, userVectorStores, nextIdx, calls, turns>>

NextConv ==
  \/ \E u \in UserIds, id \in MintIds : ConvCreate(u, id)
  \/ \E id \in ConvIds : ConvGet(id)
  \/ \E id \in ConvIds, role \in {"user", "assistant"}, content \in Messages :
        ConvAdd(id, role, content)

SpecConv == Init /\ [][NextConv]_vars

-----------------------------------------------------------------------------
(* The waiting scenario: turns of one user, with and without image, and
   writes to the rows.  Every await of handleRequest and of
   createUserVectorStore is on an answer from outside the process (prisma,
   the embedding, vision and text models): the code sets no timeout and
   passes no abort signal, so nothing obliges an answer to come.  The one
   await that needs no answer from outside is fromDocuments([], embeddings)
   for a user without rows, which makes no request: the event loop alone
   completes it. *)

EmbedLocal(c) ==
  /\ calls[c].pc = "embed"
  /\ createDocumentsFromUserData(calls[c].data) = <<>>
  /\ Embed(c)

NextWait ==
  \/ \E t \in 1..ChatTurns, u \in ServerUsers, msg \in Messages, img \in BOOLEAN :
        StartTurn(t, u, msg, img, NoId)
  \/ \E t \in TurnIds, a \in Analyses : VisionOk(t, a)
  \/ \E t \in TurnIds : VisionFail(t)
  \/ \E t \in TurnIds : ChainOk(t)
  \/ \E t \in TurnIds, cause \in {"retrieval", "generation"} : ChainFail(t, cause)
  \/ \E c \in CallIds : Fetch(c)
  \/ \E c \in CallIds : FetchFail(c)
  \/ \E c \in CallIds : Embed(c)
  \/ \E c \in CallIds : EmbedFail(c)
  \/ \E u \in ServerUsers, r \in Recs : DbWrite(u, r)

SpecWait ==
  Init /\ [][NextWait]_vars /\ \A c \in CallIds : WF_vars(EmbedLocal(c))

-----------------------------------------------------------------------------
(* The chat system and its manager as a unit: turns of one user, with and
   without image, while a holder of the chat system's UserRAGManager calls
   refreshUserVectorStore on it and the rows change.  (In the server as it
   is wired nobody but the chat system holds that manager.) *)

ChatRefresh(c, u) ==
  /\ NumActive < MaxActive
  /\ \A d \in RefreshIds : d < c => calls[d].pc # "idle"
  /\ BeginCall(c, "refresh", ChatManager, u)
  /\ UNCHANGED <<stock, db, writes, nextIdx, conversations, turns, last>>

NextUnit ==
  \/ \E t \in 1..ChatTurns, u \in ServerUsers, msg \in Messages, img \in BOOLEAN :
        StartTurn(t, u, msg, img, NoId)
  \/ \E t \in TurnIds, a \in Analyses : VisionOk(t, a)
  \/ \E t \in TurnIds : VisionFail(t)
  \/ \E t \in TurnIds : ChainOk(t)
  \/ \E t \in TurnIds, cause \in {"retrieval", "generation"} : ChainFail(t, cause)
  \/ \E c \in RefreshIds, u \in ServerUsers : ChatRefresh(c, u)
  \/ \E c \in CallIds : Fetch(c)
  \/ \E c \in CallIds : FetchFail(c)
  \/ \E c \in CallIds : Embed(c)
  \/ \E c \in CallIds : EmbedFail(c)
  \/ \E u \in ServerUsers, r \in Recs : DbWrite(u, r)

SpecUnit == Init /\ [][NextUnit]_vars

-----------------------------------------------------------------------------
(* The record-window scenario: a user with any number of rows up to MaxRows
   (a third of them products, a third sales, a third debts, the newest with
   the highest id), whose index is built by createUserVectorStore. *)

InitWindow ==
  /\ \E n \in 0..MaxRows : db = [u \in UserIds |-> IF u = "u1" THEN 1..n ELSE InitRows]
  /\ writes = 0
  /\ userVectorStores = [m \in Managers |-> [u \in UserIds |-> None]]
  /\ nextIdx = 1
  /\ calls = [c \in CallIds |-> IdleCall]
  /\ conversations = [c \in ConvIds |-> NoConv]
  /\ turns = [t \in TurnIds |-> IdleTurn]
  /\ last = IdleTurn
  /\ InitStock

NextWindow ==
  \/ \E u \in UserIds : ApiCreate(1, u)
  \/ Fetch(1)
  \/ Embed(1)

SpecWindow == InitWindow /\ [][NextWindow]_vars

-----------------------------------------------------------------------------
(* The stock scenario: any stock per product at the start, no sale rows,
   and addSale / deleteSale invocations in any interleaving. *)

InitStockAny ==
  /\ db = [u \in UserIds |-> InitRows]
  /\ writes = 0
  /\ userVectorStores = [m \in Managers |-> [u \in UserIds |-> None]]
  /\ nextIdx = 1
  /\ calls = [c \in CallIds |-> IdleCall]
  /\ conversations = [c \in ConvIds |-> NoConv]
  /\ turns = [t \in TurnIds |-> IdleTurn]
  /\ last = IdleTurn
  /\ products \in [ProductIds -> 0..MaxQty]
  /\ sales = [s \in SaleIds |-> NoSale]
  /\ ops = [o \in SaleOps |-> IdleOp]

NextStock ==
  \/ \E o \in SaleOps, p \in ProductIds \cup {NoProduct}, q \in Quantities :
        AddSaleFind(o, p, q)
  \/ \E o \in SaleOps : AddSaleCommit(o)
  \/ \E o \in SaleOps : AddSaleTxFail(o)
  \/ \E o \in SaleOps, s \in SaleIds : DeleteSaleFind(o, s)
  \/ \E o \in SaleOps : DeleteSaleCommit(o)
  \/ \E o \in SaleOps : DeleteSaleTxFail(o)

SpecStock == InitStockAny /\ [][NextStock]_vars

RECURSIVE SoldOf(_, _, _)
\* the sum of quantitySold over the rows with ids in S that are of product p
SoldOf(sls, p, S) ==
  IF S = {} THEN 0
  ELSE LET s == CHOOSE x \in S : TRUE
       IN (IF ~sls[s].none /\ sls[s].productId = p THEN sls[s].quantitySold ELSE 0)
          + SoldOf(sls, p, S \ {s})

TotalOf(prods, sls, p) == prods[p] + SoldOf(sls, p, SaleIds)

NoRecords(data) == data.products = <<>> /\ data.sales = <<>> /\ data.debts = <<>>

InSeq(x, s) == \E i \in 1..Len(s) : s[i] = x

\* C15 (as claimed): the sources of every response contain the user-data
\* entry, and the image-analysis entry exactly when the request carried
\* image data.
C15_SourcesIffImage ==
  last.pc = "done" =>
    /\ InSeq("Dados do usuario", last.sources)
    /\ InSeq("Analise de imagem", last.sources) <=> last.image

\* C15 (amended): the sources of every response are the user-data entry,
\* followed by the image-analysis entry exactly when the request carried
\* image data and the analysis that came back is not the empty string; so
\* the image-analysis entry is there only if the image step ran.
C15_SourcesIffAnalysis ==
  last.pc = "done" =>
    /\ last.sources = <<"Dados do usuario">>
         \o (IF last.image /\ last.imageAnalysis # ""
             THEN <<"Analise de imagem">> ELSE <<>>)
    /\ InSeq("Analise de imagem", last.sources) => last.image
    /\ ~last.image => last.imageAnalysis = ""

\* C15 witness: a response to a request with an image whose analysis came
\* back non-empty names both channels.
C15_Witness ==
  /\ last.pc = "done" /\ last.image /\ last.imageAnalysis = "desc"
  /\ last.sources = <<"Dados do usuario", "Analise de imagem">>

\* C17 (as claimed): a turn of user B on a conversation id that
\* createNewConversation made for another user A has none of A's stored
\* messages in its prompt history (at most its own message) and has
\* appended nothing to A's conversation.
C17_OwnerOnly ==
  \A t \in TurnIds :
    LET id == turns[t].conversationId
    IN (/\ turns[t].pc = "chain"
        /\ turns[t].supplied
        /\ ~conversations[id].none
        /\ conversations[id].userId \notin {"", turns[t].u})
       => /\ MessagesOf(conversations[id].messages, t) = <<>>
          /\ turns[t].history \in
               {<<>>, FormatHistory(<<[role |-> "user", content |-> turns[t].message]>>)}

\* C20 (as claimed): in the step in which a turn appends its user message,
\* the history it builds for the prompt is the last 6 messages (all if
\* fewer) of the stored conversation as it stands after the append, oldest
\* first; also on the first turn on an id the caller made up.
C20_HistoryFollowsAppend ==
  [][\A t \in TurnIds :
       (~turns[t].appended /\ turns'[t].appended) =>
         turns'[t].history =
           FormatHistory(LastN(StoredMessages(conversations', turns'[t].conversationId),
                               HistoryN))
    ]_vars

\* C21: once a turn has appended its user message, its query is the
\* message followed by the image analysis when that is non-empty, and the
\* message alone otherwise (so also when there is no image); the message it
\* stored in the conversation is the raw request message; and the documents
\* of a turn that returned are those the retriever gives for that query.
C21_QueryVersusStored ==
  /\ \A t \in TurnIds :
       turns[t].pc = "chain" =>
         /\ turns[t].imageAnalysis # "" =>
              turns[t].query = <<turns[t].message, turns[t].imageAnalysis>>
         /\ turns[t].imageAnalysis = "" => turns[t].query = <<turns[t].message>>
         /\ ~turns[t].image => turns[t].query = <<turns[t].message>>
         /\ MessagesOf(StoredMessages(conversations, turns[t].conversationId), t)
              = <<[role |-> "user", content |-> turns[t].message, turn |-> t]>>
  /\ last.pc = "done" =>
       /\ last.query = IF last.imageAnalysis # ""
                       THEN <<last.message, last.imageAnalysis>>
                       ELSE <<last.message>>
       /\ last.retrieved = Retrieve(last.vectorStore.docs, last.query, RetrieverK)
       /\ LET own == MessagesOf(StoredMessages(conversations, last.conversationId), last.t)
          IN /\ Len(own) = 2
             /\ own[1] = [role |-> "user", content |-> last.message, turn |-> last.t]

\* C21 witness: a turn with an image whose analysis came back non-empty
\* returned; its query carried the analysis, its stored message does not.
C21_Witness ==
  /\ last.pc = "done" /\ last.image /\ last.imageAnalysis = "desc"
  /\ last.query = <<"m1", "desc">>
  /\ \E i \in 1..Len(StoredMessages(conversations, last.conversationId)) :
       StoredMessages(conversations, last.conversationId)[i]
         = [role |-> "user", content |-> "m1", turn |-> last.t]

\* C26: no step takes a message away from a stored conversation or changes
\* one (the list before is the beginning of the list after), and when a
\* turn has returned, one conversation holds its user message and its
\* assistant message, each once, the user message first, and no other
\* conversation holds a message of it; under any interleaving of the turns
\* on one conversation id.
C26_NoMessageLost ==
  [][/\ \A c \in ConvIds :
          IsPrefix(StoredMessages(conversations, c), StoredMessages(conversations', c))
     /\ \A t \in TurnIds :
          turns'[t].pc = "done" =>
            \E c \in ConvIds :
              LET msgs == StoredMessages(conversations', c)
              IN /\ Cardinality(Positions(msgs, t, "user")) = 1
                 /\ Cardinality(Positions(msgs, t, "assistant")) = 1
                 /\ \A i \in Positions(msgs, t, "user"),
                       j \in Positions(msgs, t, "assistant") : i < j
                 /\ \A d \in ConvIds \ {c} :
                      MessagesOf(StoredMessages(conversations', d), t) = <<>>
    ]_vars

\* C26 witness: two turns on one conversation id ran interleaved (both had
\* appended their user message before either got its answer) and both
\* returned; the conversation holds the four messages.
C26_Witness ==
  /\ turns[1].pc = "done" /\ turns[2].pc = "done"
  /\ \E c \in ConvIds :
       LET msgs == StoredMessages(conversations, c)
       IN /\ Len(msgs) = 4
          /\ msgs[1].role = "user" /\ msgs[2].role = "user"
          /\ msgs[1].turn # msgs[2].turn
          /\ msgs[3].role = "assistant" /\ msgs[4].role = "assistant"
          /\ msgs[3].turn # msgs[4].turn

\* C27 (as claimed): every stored conversation carries its map key as id,
\* and the user of the turn that brought it into the store as userId, from
\* then on; also when that turn came with an id the store did not know.
C27_CreatorIsOwner ==
  [][\A c \in ConvIds :
       /\ ~conversations'[c].none => conversations'[c].id = c
       /\ ~conversations[c].none =>
            /\ ~conversations'[c].none
            /\ conversations'[c].userId = conversations[c].userId
       /\ (conversations[c].none /\ ~conversations'[c].none) =>
            \A t \in TurnIds :
              turns'[t] # turns[t] => conversations'[c].userId = turns'[t].u
    ]_vars

\* C28 (as claimed): when a turn that was called without conversationId
\* fails (index build, image analysis, retrieval or generation), the
\* conversation it made for itself is not in the store afterwards.
C28_FailedTurnNoConversation ==
  [][\A t \in TurnIds :
       (Active(t) /\ ~turns[t].supplied /\ turns'[t].pc = "failed")
         => conversations'[turns[t].conversationId].none
    ]_vars

-----------------------------------------------------------------------------
(* Claims on the chat system with its manager, checked under SpecUnit *)

\* C23 (as claimed): the retrieval of a turn runs on the index that is
\* cached for its user at that moment, also when the cache entry changed
\* after the turn obtained its index.  (Left aside: the moments at which
\* no index is cached, a refresh being under way, and the turns whose own
\* build overlapped another build for the user, for which C1 already fails.)
C23_CurrentIndex ==
  [][\A t \in TurnIds :
       (/\ turns[t].pc = "chain" /\ turns'[t].pc = "done"
        /\ calls[t].overlap = {}
        /\ Has(userVectorStores, ChatManager, turns[t].u))
         => /\ last'.t = t
            /\ last'.usedStore = userVectorStores[ChatManager][turns[t].u].id
    ]_vars

-----------------------------------------------------------------------------
(* Claims on the record window, checked under SpecWindow *)

\* C24 (as claimed): each of the three lists getUserData hands to the
\* document transformer is capped: none holds more records than the window
\* of 100 that the code sets for sales and for debts, however many rows the
\* user has.
C24_BoundedWindow ==
  \A c \in CallIds :
    calls[c].pc = "embed" =>
      /\ Len(calls[c].data.products) <= SaleTake
      /\ Len(calls[c].data.sales) <= SaleTake
      /\ Len(calls[c].data.debts) <= DebtTake

-----------------------------------------------------------------------------
(* Claims on the sale actions, checked under SpecStock *)

\* C29 (as claimed): the quantity of a product is never negative; addSale
\* creates its sale row only when the stock at the moment of the decrement
\* is at least quantitySold; and an addSale that fails for insufficient
\* stock changes neither table.
C29_StockNeverNegative ==
  [][/\ \A p \in ProductIds : products'[p] >= 0
     /\ \A o \in SaleOps :
          /\ (sales[o].none /\ ~sales'[o].none) =>
               products[sales'[o].productId] >= sales'[o].quantitySold
          /\ (ops[o].pc = "idle" /\ ops'[o].err = "Insufficient stock.") =>
               products' = products /\ sales' = sales
    ]_vars

\* C30: no step of addSale or deleteSale changes, for any product, its
\* quantity plus the quantitySold of its sale rows; an invocation that
\* fails changes neither table; and a deleteSale that goes through removes
\* the row and gives its quantitySold back to the product, so that addSale
\* followed by deleteSale of that sale restores the quantity.
C30_StockConservation ==
  [][/\ \A p \in ProductIds :
          TotalOf(products', sales', p) = TotalOf(products, sales, p)
     /\ \A o \in SaleOps :
          (ops[o].pc # "failed" /\ ops'[o].pc = "failed") =>
            products' = products /\ sales' = sales
     /\ \A o \in SaleOps :
          (ops[o].pc = "tx" /\ ops'[o].pc = "done" /\ ops[o].kind = "deleteSale") =>
            /\ sales'[ops[o].saleId].none
            /\ products'[ops[o].productId] =
                 products[ops[o].productId] + sales[ops[o].saleId].quantitySold
    ]_vars

\* C30 witness: a sale was added and two deleteSale invocations of it ran
\* together; one deleted it and gave the quantity back, the other failed;
\* no sale rows are left.
C30_Witness ==
  /\ \A s \in SaleIds : sales[s].none
  /\ \E a, d1, d2 \in SaleOps :
       /\ ops[a].kind = "addSale" /\ ops[a].pc = "done"
       /\ ops[d1].kind = "deleteSale" /\ ops[d1].pc = "done" /\ ops[d1].saleId = a
       /\ ops[d2].kind = "deleteSale" /\ ops[d2].pc = "failed" /\ ops[d2].saleId = a
       /\ ops[d2].err = "Failed to delete sale."

-----------------------------------------------------------------------------
(* Claims on waiting, checked under SpecWait *)

\* C16 (as claimed): every handleRequest invocation in progress eventually
\* completes, with a response or with an error.
C16_NoHungResponse == \A t \in TurnIds : Active(t) ~> ~Active(t)

-----------------------------------------------------------------------------
(* Claims on the retriever, checked under SpecRetrieve *)

-----------------------------------------------------------------------------
(* Claims on ConversationManager, checked under SpecConv *)

C14_GetContextTotal ==
  [][/\ (last'.pc = "got" /\ last'.t # last.t) =>
          LET id == last'.conversationId
          IN /\ conversations' = conversations
             /\ last'.ctx.id = id
             /\ ~last'.ctx.none
             /\ ~conversations[id].none => last'.ctx = conversations[id]
             /\ conversations[id].none =>
                  last'.ctx = [id |-> id, userId |-> "", messages |-> <<>>,
                               none |-> FALSE]
     /\ (last'.pc = "added" /\ last'.t # last.t) =>
          LET id == last'.conversationId
          IN /\ Len(conversations'[id].messages) = Len(last'.before) + 1
             /\ SubSeq(conversations'[id].messages, 1, Len(last'.before)) = last'.before
             /\ conversations'[id].messages[Len(last'.before) + 1].content = last'.message
             /\ \A c \in ConvIds \ {id} : conversations'[c] = conversations[c]
    ]_vars

\* C14 witness: a lookup of an id that is not in the store, while another
\* conversation has messages, returned an empty context carrying that id.
C14_Witness ==
  /\ last.pc = "got" /\ last.fresh
  /\ conversations[last.conversationId].none
  /\ last.ctx.id = last.conversationId /\ last.ctx.messages = <<>>
  /\ \E c \in ConvIds : ~conversations[c].none /\ Len(conversations[c].messages) = 2

====
